---- MODULE Spec2Model ----
(***************************************************************************)
(* A model of catalogue_browsing.py: the product catalogue, the cart, the  *)
(* checkout handler and the menu handlers that call them.                  *)
(*                                                                         *)
(* Text typed at a prompt is a sequence of one-character strings, so that  *)
(* strip(), isdigit(), int(), replace() and re.findall() are computed on   *)
(* the characters as Python computes them.  The token "sup2" stands for    *)
(* the single character U+00B2 (superscript two): str.isdigit() accepts    *)
(* it, int() does not.  Prices are in cents.                                *)
(***************************************************************************)
EXTENDS Integers, Sequences, FiniteSets, TLC

(***************************************************************************)
(* Bounds of the model.                                                    *)
(***************************************************************************)
\* Largest stock typed at a stock prompt or held by a stored catalogue.
MaxStock == 2
\* Largest quantity typed at a quantity prompt.
MaxQty == 2
\* The year of the clock when the session starts.
StartYear == 2026
\* How many months the clock may advance during the session.
MaxTicks == 1

(***************************************************************************)
(* Python text primitives.                                                 *)
(***************************************************************************)
DigitChars == <<"0", "1", "2", "3", "4", "5", "6", "7", "8", "9">>

\* The ASCII decimal digits: what [0-9] matches and int() converts.
Digits == {DigitChars[i] : i \in 1..10}

\* Characters for which str.isdigit() is true although int() rejects them.
SuperscriptDigits == {"sup2"}

Whitespace == {" "}

DigitVal(c) == (CHOOSE i \in 1..10 : DigitChars[i] = c) - 1

\* str.strip(): drop leading and trailing whitespace.
RECURSIVE lstrip(_)
lstrip(s) == IF Len(s) > 0 /\ s[1] \in Whitespace THEN lstrip(Tail(s)) ELSE s

RECURSIVE rstrip(_)
rstrip(s) ==
    IF Len(s) > 0 /\ s[Len(s)] \in Whitespace THEN rstrip(SubSeq(s, 1, Len(s) - 1)) ELSE s

strip(s) == rstrip(lstrip(s))

\* str.replace(ch, ""): drop every occurrence of the character ch.
replace(s, ch) == SelectSeq(s, LAMBDA c : c # ch)

\* str.isdigit(): non-empty and every character is a digit character.
isdigit(s) == Len(s) > 0 /\ \A i \in 1..Len(s) : s[i] \in Digits \cup SuperscriptDigits

RECURSIVE DecimalValue(_)
DecimalValue(s) ==
    IF Len(s) = 0 THEN 0
    ELSE 10 * DecimalValue(SubSeq(s, 1, Len(s) - 1)) + DigitVal(s[Len(s)])

\* int(text): surrounding whitespace is ignored, one sign is allowed, the rest
\* must be decimal digits; anything else raises ValueError (ok = FALSE).
int(s) ==
    LET t    == strip(s)
        neg  == Len(t) > 0 /\ t[1] = "-"
        body == IF Len(t) > 0 /\ t[1] \in {"-", "+"} THEN Tail(t) ELSE t
    IN  IF Len(body) > 0 /\ \A i \in 1..Len(body) : body[i] \in Digits
        THEN [ok |-> TRUE, val |-> IF neg THEN 0 - DecimalValue(body) ELSE DecimalValue(body)]
        ELSE [ok |-> FALSE, val |-> 0]

\* re.findall(r"[0-9]+", s): the maximal runs of ASCII digits, left to right.
RECURSIVE findall(_)
findall(s) ==
    LET starts == {i \in 1..Len(s) : s[i] \in Digits}
    IN  IF starts = {} THEN <<>>
        ELSE LET lo   == CHOOSE i \in starts : \A j \in starts : i <= j
                 ends == {j \in lo..Len(s) : s[j] \notin Digits}
                 hi   == IF ends = {} THEN Len(s)
                         ELSE (CHOOSE j \in ends : \A k \in ends : j <= k) - 1
             IN  <<SubSeq(s, lo, hi)>> \o findall(SubSeq(s, hi + 1, Len(s)))

\* The decimal text of a natural number, as a user types it.
RECURSIVE ToText(_)
ToText(n) ==
    IF n < 10 THEN <<DigitChars[n + 1]>>
    ELSE ToText(n \div 10) \o <<DigitChars[(n % 10) + 1]>>

\* A text of n copies of the character c.
Rep(c, n) == [i \in 1..n |-> c]

(***************************************************************************)
(* Products and the catalogue (class Product, class ProductCatalogue).     *)
(***************************************************************************)
Product(upc, name, description, price, category, stock) ==
    [upc |-> upc, name |-> name, description |-> description,
     price |-> price, category |-> category, stock |-> stock]

\* The three products of create_sample_catalogue(), in its order.
create_sample_catalogue ==
    << Product("1111", "Laptop X1", "High performance laptop", 129999, "Computers", 5),
       Product("2222", "Smart TV 55\"", "4K UHD Smart TV", 89999, "TVs", 0),
       Product("3333", "Bluetooth Speaker", "Portable speaker", 7999, "Audio", 10) >>

\* The identifiers typed at a UPC prompt while shopping.
UPCS == {"1111", "2222"}

\* What is typed for a product with this UPC, its stock apart.
ProductSheet(upc, stock) ==
    LET p == CHOOSE q \in {create_sample_catalogue[i] : i \in 1..Len(create_sample_catalogue)} :
                 q.upc = upc
    IN  Product(upc, p.name, p.description, p.price, p.category, stock)

\* find_product_by_upc: the position of the first product with this UPC,
\* 0 for None.  A position stands for the reference to the Product object.
find_product_by_upc(prods, upc) ==
    LET hits == {i \in 1..Len(prods) : prods[i].upc = upc}
    IN  IF hits = {} THEN 0 ELSE CHOOSE i \in hits : \A j \in hits : i <= j

\* add_product that puts the product in front.
add_product_in_front(prods, product) == <<product>> \o prods

add_product(prods, product) == Append(prods, product)

\* remove_product_by_upc that also drops every product after the one removed.
remove_product_by_upc_and_after(prods, upc) ==
    LET hits == {i \in 1..Len(prods) : prods[i].upc = upc}
    IN  IF hits = {} THEN prods
        ELSE SubSeq(prods, 1, (CHOOSE i \in hits : \A j \in hits : i <= j) - 1)

remove_product_by_upc(prods, upc) == SelectSeq(prods, LAMBDA p : p.upc # upc)

\* The characters of a name or a category held by a product.
Characters(s) ==
    CASE s = "Laptop X1" -> <<"L", "a", "p", "t", "o", "p", " ", "X", "1">>
      [] s = "Smart TV 55\"" -> <<"S", "m", "a", "r", "t", " ", "T", "V", " ", "5", "5", "\"">>
      [] s = "Bluetooth Speaker" -> <<"B", "l", "u", "e", "t", "o", "o", "t", "h", " ", "S", "p", "e", "a", "k", "e", "r">>
      [] s = "Speaker Stand" -> <<"S", "p", "e", "a", "k", "e", "r", " ", "S", "t", "a", "n", "d">>
      [] s = "Computers" -> <<"C", "o", "m", "p", "u", "t", "e", "r", "s">>
      [] s = "TVs" -> <<"T", "V", "s">>
      [] s = "Audio" -> <<"A", "u", "d", "i", "o">>
      [] s = "audio" -> <<"a", "u", "d", "i", "o">>

UpperCase == <<"A", "B", "C", "D", "E", "F", "G", "H", "I", "J", "K", "L", "M", "N", "O", "P", "Q", "R", "S", "T", "U", "V", "W", "X", "Y", "Z">>

LowerCase == <<"a", "b", "c", "d", "e", "f", "g", "h", "i", "j", "k", "l", "m", "n", "o", "p", "q", "r", "s", "t", "u", "v", "w", "x", "y", "z">>

\* str.lower() that leaves every character as it is.
lower_unchanged(s) == s

\* str.lower()
lower(s) ==
    [i \in 1..Len(s) |->
        IF \E k \in 1..Len(UpperCase) : UpperCase[k] = s[i]
        THEN LowerCase[CHOOSE k \in 1..Len(UpperCase) : UpperCase[k] = s[i]]
        ELSE s[i]]

\* sub in s
contains(sub, s) ==
    \E k \in 0..(Len(s) - Len(sub)) : SubSeq(s, k + 1, k + Len(sub)) = sub

filter_by_category(prods, category) ==
    SelectSeq(prods, LAMBDA p : lower(Characters(p.category)) = lower(category))

\* sorted(prods, key=price, reverse=reverse): a stable sort, so that products
\* of one price keep their order, in either direction.
RECURSIVE sorted(_, _)
sorted(prods, reverse) ==
    IF prods = <<>> THEN <<>>
    ELSE LET init   == sorted(SubSeq(prods, 1, Len(prods) - 1), reverse)
             x      == prods[Len(prods)]
             before == {i \in 1..Len(init) :
                           IF reverse THEN init[i].price >= x.price
                           ELSE init[i].price <= x.price}
         IN  SubSeq(init, 1, Cardinality(before)) \o <<x>>
             \o SubSeq(init, Cardinality(before) + 1, Len(init))

filter_by_price(prods, ascending) == sorted(prods, ~ascending)

search_by_name(prods, search_name) ==
    SelectSeq(prods, LAMBDA p : contains(lower(search_name), lower(Characters(p.name))))

\* product.stock = value, through the reference at position i.
SetStock(prods, i, value) == [prods EXCEPT ![i].stock = value]

(***************************************************************************)
(* The cart: a Python dict upc -> quantity, which keeps insertion order.   *)
(* It is a sequence of entries with distinct keys.                         *)
(***************************************************************************)
DictIndex(d, k) ==
    LET hits == {i \in 1..Len(d) : d[i].upc = k}
    IN  IF hits = {} THEN 0 ELSE CHOOSE i \in hits : TRUE

DictHas(d, k) == DictIndex(d, k) # 0

DictGet(d, k) == d[DictIndex(d, k)].qty

\* d[k] = v: an existing key keeps its place, a new key goes last.
DictSet(d, k, v) ==
    IF DictHas(d, k) THEN [d EXCEPT ![DictIndex(d, k)].qty = v]
    ELSE Append(d, [upc |-> k, qty |-> v])

\* del d[k]
DictDel(d, k) == SelectSeq(d, LAMBDA e : e.upc # k)

DictKeys(d) == {d[i].upc : i \in 1..Len(d)}

\* add_to_cart that checks the added quantity alone, not the resulting total.
add_to_cart_unchecked_total(its, product, quantity) ==
    IF product.stock < quantity
    THEN [items |-> its, result |-> "InsufficientStock"]
    ELSE IF DictHas(its, product.upc)
    THEN [items |-> DictSet(its, product.upc, DictGet(its, product.upc) + quantity),
          result |-> "Added"]
    ELSE [items |-> DictSet(its, product.upc, quantity), result |-> "Added"]

\* Cart.add_to_cart(product, quantity)
add_to_cart(its, product, quantity) ==
    IF product.stock < quantity
    THEN [items |-> its, result |-> "InsufficientStock"]
    ELSE IF DictHas(its, product.upc)
    THEN LET new_quantity == DictGet(its, product.upc) + quantity
         IN  IF new_quantity > product.stock
             THEN [items |-> its, result |-> "InsufficientStock"]
             ELSE [items |-> DictSet(its, product.upc, new_quantity), result |-> "Added"]
    ELSE [items |-> DictSet(its, product.upc, quantity), result |-> "Added"]

\* remove_from_cart that empties the cart.
remove_from_cart_clears(its, product_upc) ==
    IF DictHas(its, product_upc)
    THEN [items |-> <<>>, result |-> "Removed"]
    ELSE [items |-> its, result |-> "NotInCart"]

\* Cart.remove_from_cart(product_upc)
remove_from_cart(its, product_upc) ==
    IF DictHas(its, product_upc)
    THEN [items |-> DictDel(its, product_upc), result |-> "Removed"]
    ELSE [items |-> its, result |-> "NotInCart"]

\* update_quantity that adds the quantity to the one the cart holds.
update_quantity_additive(its, product_upc, quantity, prods) ==
    LET i   == find_product_by_upc(prods, product_upc)
        new == IF DictHas(its, product_upc) THEN DictGet(its, product_upc) + quantity
               ELSE quantity
    IN  IF i = 0 THEN [items |-> its, result |-> "ProductNotFound"]
        ELSE IF quantity <= 0 THEN remove_from_cart(its, product_upc)
        ELSE IF new > prods[i].stock
        THEN [items |-> its, result |-> "InsufficientStock"]
        ELSE [items |-> DictSet(its, product_upc, new), result |-> "Updated"]

\* update_quantity that stores a quantity of 0 instead of removing the entry.
update_quantity_stores_zero(its, product_upc, quantity, prods) ==
    LET i == find_product_by_upc(prods, product_upc)
    IN  IF i = 0 THEN [items |-> its, result |-> "ProductNotFound"]
        ELSE IF quantity < 0 THEN remove_from_cart(its, product_upc)
        ELSE IF quantity > prods[i].stock
        THEN [items |-> its, result |-> "InsufficientStock"]
        ELSE [items |-> DictSet(its, product_upc, quantity), result |-> "Updated"]

\* update_quantity that leaves the updated entry alone in the cart.
update_quantity_alone(its, product_upc, quantity, prods) ==
    LET i == find_product_by_upc(prods, product_upc)
    IN  IF i = 0 THEN [items |-> its, result |-> "ProductNotFound"]
        ELSE IF quantity <= 0 THEN remove_from_cart(its, product_upc)
        ELSE IF quantity > prods[i].stock
        THEN [items |-> its, result |-> "InsufficientStock"]
        ELSE [items |-> <<[upc |-> product_upc, qty |-> quantity]>>, result |-> "Updated"]

\* Cart.update_quantity(product_upc, quantity, catalogue)
update_quantity(its, product_upc, quantity, prods) ==
    LET i == find_product_by_upc(prods, product_upc)
    IN  IF i = 0 THEN [items |-> its, result |-> "ProductNotFound"]
        ELSE IF quantity <= 0 THEN remove_from_cart(its, product_upc)
        ELSE IF quantity > prods[i].stock
        THEN [items |-> its, result |-> "InsufficientStock"]
        ELSE [items |-> DictSet(its, product_upc, quantity), result |-> "Updated"]

\* SumPrices that counts one unit of every entry.
RECURSIVE SumPrices_one_unit_each(_, _)
SumPrices_one_unit_each(its, prods) ==
    IF its = <<>> THEN 0
    ELSE prods[find_product_by_upc(prods, Head(its).upc)].price
         + SumPrices_one_unit_each(Tail(its), prods)

\* Cart.get_total_price(catalogue), in cents.  An entry whose product is not
\* in the catalogue makes product.price raise AttributeError (ok = FALSE).
RECURSIVE SumPrices(_, _)
SumPrices(its, prods) ==
    IF its = <<>> THEN 0
    ELSE prods[find_product_by_upc(prods, Head(its).upc)].price * Head(its).qty
         + SumPrices(Tail(its), prods)

get_total_price(its, prods) ==
    IF \E e \in {its[i] : i \in 1..Len(its)} : find_product_by_upc(prods, e.upc) = 0
    THEN [ok |-> FALSE, total |-> 0]
    ELSE [ok |-> TRUE, total |-> SumPrices(its, prods)]

(***************************************************************************)
(* CheckoutHandler.checkout                                                *)
(***************************************************************************)
\* Digits a card number must have, digits of a security number, and the
\* range of an expiry month.
CardDigits == 16
SecurityDigits == 3
FirstMonth == 1
LastMonth == 12

\* stock_available with the comparison off by one.
stock_available_off_by_one(its, prods) ==
    \A n \in 1..Len(its) :
        LET i == find_product_by_upc(prods, its[n].upc)
        IN  i # 0 => ~(prods[i].stock + 1 < its[n].qty)

\* The stock loop: no entry resolves to a product with less stock than the
\* entry asks for.  An entry that resolves to no product is passed over.
stock_available(its, prods) ==
    \A n \in 1..Len(its) :
        LET i == find_product_by_upc(prods, its[n].upc)
        IN  i # 0 => ~(prods[i].stock < its[n].qty)

\* The card number as typed passes: hyphens and spaces are dropped, and the
\* first run of digits in what is left has sixteen digits.
card_number_ok(typed) ==
    LET card_number == findall(replace(replace(typed, "-"), " "))
    IN  ~(card_number = <<>> \/ Len(card_number[1]) # CardDigits)

\* The security number as typed passes.
security_number_ok(typed) ==
    LET security_number == strip(typed)
    IN  isdigit(security_number) /\ Len(security_number) = SecurityDigits

\* The expiry test against the clock.
expired(expiry_date_year, expiry_date_month, clock) ==
    \/ expiry_date_year < clock.year
    \/ (expiry_date_year = clock.year /\ expiry_date_month < clock.month)

\* The payment prompts in order; the first one that fails ends the run.
\* int() of a text that isdigit() accepts and int() rejects raises ValueError.
payment_check(card, month, year, cvv, clock) ==
    LET m == strip(month)
        y == strip(year)
    IN  IF ~card_number_ok(card) THEN "BadCardNumber"
        ELSE IF ~isdigit(m) THEN "BadMonth"
        ELSE IF ~int(m).ok THEN "ValueError"
        ELSE IF ~(FirstMonth <= int(m).val /\ int(m).val <= LastMonth) THEN "BadMonth"
        ELSE IF ~isdigit(y) THEN "BadYear"
        ELSE IF ~int(y).ok THEN "ValueError"
        ELSE IF expired(int(y).val, int(m).val, clock) THEN "ExpiredCard"
        ELSE IF ~security_number_ok(cvv) THEN "BadSecurityNumber"
        ELSE "Success"

\* validate that asks for the payment before it looks at the stock.
validate_payment_first(its, prods, card, month, year, cvv, clock) ==
    IF its = <<>> THEN "EmptyCart"
    ELSE IF payment_check(card, month, year, cvv, clock) # "Success"
    THEN payment_check(card, month, year, cvv, clock)
    ELSE IF ~stock_available(its, prods) THEN "InsufficientStock"
    ELSE IF ~get_total_price(its, prods).ok THEN "AttributeError"
    ELSE "Success"

\* Everything checkout does before it changes anything.
validate(its, prods, card, month, year, cvv, clock) ==
    IF its = <<>> THEN "EmptyCart"
    ELSE IF ~stock_available(its, prods) THEN "InsufficientStock"
    ELSE IF ~get_total_price(its, prods).ok THEN "AttributeError"
    ELSE payment_check(card, month, year, cvv, clock)

\* commit that debits the first entry only.
commit_first_only(prods, its) ==
    IF its = <<>> THEN prods
    ELSE LET i == find_product_by_upc(prods, Head(its).upc)
         IN  SetStock(prods, i, prods[i].stock - Head(its).qty)

\* The commit loop: product.stock -= qty for every entry, in cart order.
RECURSIVE commit(_, _)
commit(prods, its) ==
    IF its = <<>> THEN prods
    ELSE LET i == find_product_by_upc(prods, Head(its).upc)
         IN  commit(SetStock(prods, i, prods[i].stock - Head(its).qty), Tail(its))

\* checkout that debits the stock although the card number is refused.
checkout_debit_on_bad_card(its, prods, card, month, year, cvv, clock) ==
    LET v == validate(its, prods, card, month, year, cvv, clock)
    IN  IF v = "Success"
        THEN [result |-> v, products |-> commit(prods, its), items |-> <<>>]
        ELSE IF v = "BadCardNumber"
        THEN [result |-> v, products |-> commit(prods, its), items |-> its]
        ELSE [result |-> v, products |-> prods, items |-> its]

\* checkout that debits the stock before it asks for the security number.
checkout_debit_before_security(its, prods, card, month, year, cvv, clock) ==
    LET v == validate(its, prods, card, month, year, cvv, clock)
    IN  IF v = "Success"
        THEN [result |-> v, products |-> commit(prods, its), items |-> <<>>]
        ELSE IF v = "BadSecurityNumber"
        THEN [result |-> v, products |-> commit(prods, its), items |-> its]
        ELSE [result |-> v, products |-> prods, items |-> its]

checkout(its, prods, card, month, year, cvv, clock) ==
    LET v == validate(its, prods, card, month, year, cvv, clock)
    IN  IF v = "Success"
        THEN [result |-> v, products |-> commit(prods, its), items |-> <<>>]
        ELSE [result |-> v, products |-> prods, items |-> its]

\* The payment fields a run of checkout has read when it ends with `result`;
\* a field it never asked for is Unread.
Unread == <<"unread">>

FieldsRead(result, card, month, year, cvv) ==
    LET n == CASE result \in {"EmptyCart", "InsufficientStock", "AttributeError"} -> 0
               [] result = "BadCardNumber" -> 1
               [] result = "BadMonth" -> 2
               [] result \in {"BadYear", "ExpiredCard"} -> 3
               [] result = "ValueError" -> IF isdigit(strip(month)) /\ ~int(strip(month)).ok
                                           THEN 2 ELSE 3
               [] OTHER -> 4
    IN  [card  |-> IF n >= 1 THEN card ELSE Unread,
         month |-> IF n >= 2 THEN month ELSE Unread,
         year  |-> IF n >= 3 THEN year ELSE Unread,
         cvv   |-> IF n >= 4 THEN cvv ELSE Unread]

\* An uncaught exception: the process ends.
Crashes == {"AttributeError", "ValueError", "TypeError", "UnicodeDecodeError"}

(***************************************************************************)
(* The menu handlers, as functions of what is typed.                       *)
(***************************************************************************)
\* product_details_and_add_to_cart that takes a quantity of 0.
product_details_accepts_zero(its, product, typed) ==
    LET qty_str == strip(typed)
    IN  IF ~isdigit(qty_str) THEN [items |-> its, result |-> "InvalidQuantity"]
        ELSE IF ~int(qty_str).ok THEN [items |-> its, result |-> "InvalidSelection"]
        ELSE IF int(qty_str).val < 0 THEN [items |-> its, result |-> "InvalidQuantity"]
        ELSE add_to_cart(its, product, int(qty_str).val)

\* product_details_and_add_to_cart(product, cart), answered "y", for one
\* quantity typed.  "InvalidQuantity" is the handler asking again; a text that
\* isdigit() accepts and int() rejects raises ValueError, which the caller's
\* selection loop catches ("InvalidSelection").
product_details_and_add_to_cart(its, product, typed) ==
    LET qty_str == strip(typed)
    IN  IF ~isdigit(qty_str) THEN [items |-> its, result |-> "InvalidQuantity"]
        ELSE IF ~int(qty_str).ok THEN [items |-> its, result |-> "InvalidSelection"]
        ELSE IF int(qty_str).val < 1 THEN [items |-> its, result |-> "InvalidQuantity"]
        ELSE add_to_cart(its, product, int(qty_str).val)

\* The item number typed in cart_menu: the cart position it selects, 0 when
\* it is no number or out of range ("Invalid item number.").
item_number(its, typed) ==
    LET n == int(strip(typed))
    IN  IF ~n.ok THEN 0
        ELSE IF n.val - 1 < 0 \/ n.val - 1 >= Len(its) THEN 0
        ELSE n.val

\* cart_menu, choice 1.
cart_menu_remove(its, typed) ==
    LET n == item_number(its, typed)
    IN  IF n = 0 THEN [items |-> its, result |-> "InvalidItemNumber"]
        ELSE remove_from_cart(its, its[n].upc)

\* cart_menu, choice 2.
cart_menu_update(its, prods, typed, typed_qty) ==
    LET n       == item_number(its, typed)
        qty_str == strip(typed_qty)
    IN  IF n = 0 THEN [items |-> its, result |-> "InvalidItemNumber"]
        ELSE IF find_product_by_upc(prods, its[n].upc) = 0
        THEN [items |-> its, result |-> "ProductNotFound"]
        ELSE IF ~isdigit(qty_str) THEN [items |-> its, result |-> "InvalidQuantity"]
        ELSE IF ~int(qty_str).ok THEN [items |-> its, result |-> "InvalidItemNumber"]
        ELSE update_quantity(its, its[n].upc, int(qty_str).val, prods)

\* A stock typed at a stock prompt is taken: int() converts it and it is
\* not negative.  Otherwise the prompt is repeated.
stock_accepted(typed) ==
    LET n == int(strip(typed))
    IN  n.ok /\ ~(n.val < 0)

\* add_new_product(catalogue), for one stock typed.
add_new_product(prods, upc, typed_stock) ==
    IF find_product_by_upc(prods, upc) # 0
    THEN [products |-> prods, result |-> "DuplicateIdentifier"]
    ELSE IF ~stock_accepted(typed_stock)
    THEN [products |-> prods, result |-> "InvalidStock"]
    ELSE [products |-> add_product(prods, ProductSheet(upc, int(strip(typed_stock)).val)),
          result |-> "ProductAdded"]

\* edit_product_stock(catalogue), for one stock typed.
edit_product_stock(prods, upc, typed_stock) ==
    LET i == find_product_by_upc(prods, upc)
    IN  IF prods = <<>> THEN [products |-> prods, result |-> "CatalogueEmpty"]
        ELSE IF i = 0 THEN [products |-> prods, result |-> "ProductNotFound"]
        ELSE IF ~stock_accepted(typed_stock)
        THEN [products |-> prods, result |-> "InvalidStock"]
        ELSE [products |-> SetStock(prods, i, int(strip(typed_stock)).val),
              result |-> "StockUpdated"]

\* delete_product_from_catalogue(catalogue).  The confirmation is typed in
\* lower case, so lower() changes nothing.
delete_product_from_catalogue(prods, upc, confirm) ==
    IF prods = <<>> THEN [products |-> prods, result |-> "CatalogueEmpty"]
    ELSE IF find_product_by_upc(prods, upc) = 0
    THEN [products |-> prods, result |-> "ProductNotFound"]
    ELSE IF strip(confirm) = <<"y">>
    THEN [products |-> remove_product_by_upc(prods, upc), result |-> "ProductDeleted"]
    ELSE [products |-> prods, result |-> "DeletionCancelled"]

(***************************************************************************)
(* Storage: catalogue.json and cart.json.  A file is absent, holds text    *)
(* that json.load cannot parse, or holds a JSON value.  Numbers are kept   *)
(* as the text json.dump writes, objects as their members in order.        *)
(***************************************************************************)
AbsentFile == [state |-> "absent", data |-> <<>>]

UnparseableFile == [state |-> "unparseable", data |-> <<>>]

\* A file of bytes that are no UTF-8 text: reading it raises UnicodeDecodeError,
\* which is a ValueError and no json.JSONDecodeError.
UndecodableFile == [state |-> "undecodable", data |-> <<>>]

\* open(file, "w") and json.dump: the file holds the value given.
save(data) == [state |-> "valid", data |-> data]

JString(s) == [json |-> "string", text |-> s]

JNumber(text) == [json |-> "number", text |-> text]

JObject(members) == [json |-> "object", members |-> members]

JArray(elements) == [json |-> "array", elements |-> elements]

Member(key, value) == [key |-> key, value |-> value]

\* json.dump of an int, and json.load of what it wrote.
IntText(n) == IF n < 0 THEN <<"-">> \o ToText(0 - n) ELSE ToText(n)

IntValue(text) ==
    IF Len(text) > 0 /\ text[1] = "-" THEN 0 - DecimalValue(Tail(text))
    ELSE DecimalValue(text)

\* FloatText that writes the whole part only.
FloatText_whole_part(cents) == ToText(cents \div 100) \o <<".", "0">>

\* json.dump of a float price: the whole part, a point, and the cents without
\* a trailing zero (1299.99, 10.5, 10.0).
FloatText(cents) ==
    LET frac == cents % 100
    IN  ToText(cents \div 100) \o <<".">>
        \o (IF frac % 10 = 0 THEN ToText(frac \div 10)
            ELSE ToText(frac \div 10) \o ToText(frac % 10))

\* json.load of a number read as a price: with a point it is a float, without
\* one an int of whole currency units.
FloatValue(text) ==
    LET dots == {i \in 1..Len(text) : text[i] = "."}
    IN  IF dots = {} THEN 100 * DecimalValue(text)
        ELSE LET d    == CHOOSE i \in dots : TRUE
                 frac == SubSeq(text, d + 1, Len(text))
             IN  100 * DecimalValue(SubSeq(text, 1, d - 1))
                 + (IF Len(frac) = 1 THEN 10 * DecimalValue(frac) ELSE DecimalValue(frac))

\* p.__dict__ as json.dump writes it: the attributes in the order __init__
\* assigns them.
to_dict(p) ==
    JObject(<< Member("upc", JString(p.upc)),
               Member("name", JString(p.name)),
               Member("description", JString(p.description)),
               Member("price", JNumber(FloatText(p.price))),
               Member("category", JString(p.category)),
               Member("stock", JNumber(IntText(p.stock))) >>)

\* The parameters of Product.__init__.
ProductFields == {"upc", "name", "description", "price", "category", "stock"}

\* Product(**pd) can be called: pd is a mapping whose keys are exactly the
\* parameters.  Anything else raises TypeError.
accepts(pd) ==
    /\ pd.json = "object"
    /\ {pd.members[i].key : i \in 1..Len(pd.members)} = ProductFields

ValueOf(pd, key) ==
    pd.members[CHOOSE i \in 1..Len(pd.members) : pd.members[i].key = key].value

\* Product(**pd), the keyword arguments taken by name.
from_dict(pd) ==
    Product(ValueOf(pd, "upc").text, ValueOf(pd, "name").text,
            ValueOf(pd, "description").text, FloatValue(ValueOf(pd, "price").text),
            ValueOf(pd, "category").text, IntValue(ValueOf(pd, "stock").text))

\* ProductCatalogue.save() that leaves the last product out.
catalogue_save_drops_last(prods) ==
    save([i \in 1..(Len(prods) - 1) |-> to_dict(prods[i])])

\* ProductCatalogue.save()
catalogue_save(prods) == save([i \in 1..Len(prods) |-> to_dict(prods[i])])

\* ProductCatalogue.load() on a new ProductCatalogue.  A missing file, text
\* that is no JSON (JSONDecodeError) and an empty list (ValueError) give the
\* sample catalogue, which is saved.  A record Product() cannot be called
\* with raises TypeError, which load() does not catch.
catalogue_load(file) ==
    LET seeded == [result |-> "Seeded", products |-> create_sample_catalogue,
                   file |-> catalogue_save(create_sample_catalogue)]
    IN  IF file.state \in {"absent", "unparseable", "undecodable"} THEN seeded
        ELSE IF file.data = <<>> THEN seeded
        ELSE IF \E i \in 1..Len(file.data) : ~accepts(file.data[i])
        THEN [result |-> "TypeError", products |-> <<>>, file |-> file]
        ELSE [result |-> "Loaded",
              products |-> [i \in 1..Len(file.data) |-> from_dict(file.data[i])],
              file |-> file]

\* cart.items is a dict of quantities.  A value json.load gave that is no
\* dict is held as NoDict(value).
IsDict(its) == \A n \in 1..Len(its) : DOMAIN its[n] = {"upc", "qty"}

NoDict(value) == <<value>>

\* Cart.save(): the dict upc -> quantity as a JSON object; any other value
\* held in cart.items as json.dump writes it.
cart_save(its) ==
    IF IsDict(its)
    THEN save(JObject([n \in 1..Len(its) |->
                          Member(its[n].upc, JNumber(IntText(its[n].qty)))]))
    ELSE save(its[1])

\* Cart.load() on a new Cart.  A missing file leaves the empty dict and text
\* that is no JSON (JSONDecodeError) gives it; whatever json.load returns is
\* assigned to cart.items, a dict or not; any other exception is not caught.
cart_load(file) ==
    IF file.state = "undecodable" THEN [result |-> "UnicodeDecodeError", items |-> <<>>]
    ELSE IF file.state \in {"absent", "unparseable"} THEN [result |-> "Loaded", items |-> <<>>]
    ELSE IF file.data.json # "object" THEN [result |-> "Loaded", items |-> NoDict(file.data)]
    ELSE [result |-> "Loaded",
          items |-> [n \in 1..Len(file.data.members) |->
                        [upc |-> file.data.members[n].key,
                         qty |-> IntValue(file.data.members[n].value.text)]]]

(***************************************************************************)
(* State.                                                                  *)
(***************************************************************************)
VARIABLES
    products,       \* catalogue.products
    items,          \* cart.items
    catalogueFile,  \* catalogue.json
    cartFile,       \* cart.json
    now,            \* datetime.now(): [year, month]
    last,           \* the handler that ran last and how it ended
    payment         \* the payment fields the last checkout read

vars == <<products, items, catalogueFile, cartFile, now, last, payment>>

NoPayment == [card |-> Unread, month |-> Unread, year |-> Unread, cvv |-> Unread]

\* The process is not running: main() has not been started, has returned, or
\* an exception has ended it.
Stopped == Crashes \cup {"NotStarted", "Exited"}

\* The process is at a menu prompt.
Running == last.result \notin Stopped

Done(op, result) == last' = [op |-> op, result |-> result] /\ payment' = NoPayment

(***************************************************************************)
(* Inputs.                                                                 *)
(***************************************************************************)
QtyInputs ==
    {ToText(n) : n \in 0..MaxQty} \cup {<<"-", "1">>, <<"sup2">>}

StockInputs ==
    {ToText(n) : n \in 0..MaxStock} \cup {<<"-", "1">>, <<"x">>}

ItemNumberInputs ==
    {ToText(n) : n \in 0..(Cardinality(UPCS) + 1)} \cup {<<"x">>}

ConfirmInputs == {<<"y">>, <<"n">>}

\* What a prompt receives, or Unread when the handler ends before the prompt.
QtyAnswers == QtyInputs \cup {Unread}

StockAnswers == StockInputs \cup {Unread}

ConfirmAnswers == ConfirmInputs \cup {Unread}

Card16 == Rep("4", 1) \o Rep("1", CardDigits - 1)

CardInputs ==
    { Card16,
      Rep("4", 1) \o Rep("1", 3) \o <<" ">> \o Rep("1", 4) \o <<" ">>
          \o Rep("1", 4) \o <<" ">> \o Rep("1", 4),
      Rep("4", 4) \o <<"-">> \o Rep("1", CardDigits - 4),
      Rep("1", CardDigits - 1),
      Rep("1", CardDigits + 1),
      <<>>,
      <<"x">> \o Card16,
      Card16 \o <<"x">>,
      Card16 \o <<"x", "1">>,
      Rep("1", 8) \o <<"x">> \o Rep("1", 8) }

MonthInputs ==
    {ToText(FirstMonth), ToText(LastMonth), ToText(FirstMonth - 1), ToText(LastMonth + 1),
     <<" ">> \o ToText(LastMonth), <<"x">>, <<"sup2">>, <<>>}

YearInputs ==
    {ToText(StartYear - 1), ToText(StartYear), ToText(StartYear + 1), ToText(0),
     <<"x">>, <<"sup2">>}

CvvInputs ==
    {Rep("1", SecurityDigits), Rep("1", SecurityDigits - 1), Rep("1", SecurityDigits + 1),
     Rep("1", SecurityDigits - 1) \o <<"x">>, Rep("sup2", SecurityDigits)}

Pay(card, month, year, cvv) == [card |-> card, month |-> month, year |-> year, cvv |-> cvv]

\* A payment that passes.
GoodPayment == Pay(Card16, ToText(LastMonth), ToText(StartYear + 1), Rep("1", SecurityDigits))

\* Every card number with the other fields good, every expiry with the other
\* fields good, and every security number with the other fields good.
Payments ==
    {[GoodPayment EXCEPT !.card = c] : c \in CardInputs}
    \cup {[GoodPayment EXCEPT !.month = m, !.year = y] : m \in MonthInputs, y \in YearInputs}
    \cup {[GoodPayment EXCEPT !.cvv = c] : c \in CvvInputs}

\* The payment that passes and one for each way a payment fails.

FewPayments ==
    { GoodPayment,
      [GoodPayment EXCEPT !.card  = Rep("1", CardDigits - 1)],
      [GoodPayment EXCEPT !.month = ToText(LastMonth + 1)],
      [GoodPayment EXCEPT !.month = <<"sup2">>],
      [GoodPayment EXCEPT !.year  = <<"x">>],
      [GoodPayment EXCEPT !.year  = ToText(StartYear - 1)],
      [GoodPayment EXCEPT !.cvv   = Rep("1", SecurityDigits - 1)] }

(***************************************************************************)
(* main(): the catalogue and the cart are loaded.  catalogue.json is a     *)
(* valid file an earlier session left, with two of the sample products and *)
(* their stocks edited; cart.json is absent, so the cart is empty.         *)
(***************************************************************************)
StartClock == [year |-> StartYear, month |-> LastMonth]

StoredCatalogues ==
    { <<ProductSheet("1111", a), ProductSheet("2222", b)>> : a, b \in 0..MaxStock }

Init ==
    /\ catalogueFile \in {catalogue_save(c) : c \in StoredCatalogues}
    /\ products = catalogue_load(catalogueFile).products
    /\ cartFile = AbsentFile
    /\ items = <<>>
    /\ now = StartClock
    /\ last = [op |-> "main", result |-> "Loaded"]
    /\ payment = NoPayment

(***************************************************************************)
(* Actions: one per handler.                                               *)
(***************************************************************************)
\* A product is picked from a listing and a quantity is typed.
AddItem(upc, typed) ==
    /\ Running
    /\ find_product_by_upc(products, upc) # 0
    /\ LET r == product_details_and_add_to_cart(
                    items, products[find_product_by_upc(products, upc)], typed)
       IN  /\ items' = r.items
           /\ Done("add_to_cart", r.result)
    /\ UNCHANGED <<products, catalogueFile, cartFile, now>>

\* cart_menu shows its choices only while the cart is not empty.
RemoveItem(typed) ==
    /\ Running
    /\ items # <<>>
    /\ LET r == cart_menu_remove(items, typed)
       IN  /\ items' = r.items
           /\ Done("remove_from_cart", r.result)
    /\ UNCHANGED <<products, catalogueFile, cartFile, now>>

\* The quantity is asked for once the item number selects an entry whose
\* product is in the catalogue.
UpdateItem(typed, typed_qty) ==
    /\ Running
    /\ items # <<>>
    /\ LET n == item_number(items, typed)
       IN  (typed_qty = Unread) =
               (n = 0 \/ find_product_by_upc(products, items[n].upc) = 0)
    /\ LET r == cart_menu_update(items, products, typed, typed_qty)
       IN  /\ items' = r.items
           /\ Done("update_quantity", r.result)
    /\ UNCHANGED <<products, catalogueFile, cartFile, now>>

\* cart_menu, choice 3: checkout, and on success both files are saved.
Checkout(pay) ==
    /\ Running
    /\ items # <<>>
    /\ LET r == checkout(items, products, pay.card, pay.month, pay.year, pay.cvv, now)
       IN  /\ products' = r.products
           /\ items' = r.items
           /\ last' = [op |-> "checkout", result |-> r.result]
           /\ payment' = FieldsRead(r.result, pay.card, pay.month, pay.year, pay.cvv)
           /\ IF r.result = "Success"
              THEN catalogueFile' = catalogue_save(r.products) /\ cartFile' = cart_save(r.items)
              ELSE UNCHANGED <<catalogueFile, cartFile>>
    /\ UNCHANGED now

\* The stock is asked for once the UPC is found to be new.
AddNewProduct(upc, typed_stock) ==
    /\ Running
    /\ (typed_stock = Unread) = (find_product_by_upc(products, upc) # 0)
    /\ LET r == add_new_product(products, upc, typed_stock)
       IN  /\ products' = r.products
           /\ Done("add_new_product", r.result)
           /\ IF r.result = "ProductAdded"
              THEN catalogueFile' = catalogue_save(r.products)
              ELSE UNCHANGED catalogueFile
    /\ UNCHANGED <<items, cartFile, now>>

\* The stock is asked for once the UPC is found in the catalogue.
EditStock(upc, typed_stock) ==
    /\ Running
    /\ (typed_stock = Unread) = (find_product_by_upc(products, upc) = 0)
    /\ LET r == edit_product_stock(products, upc, typed_stock)
       IN  /\ products' = r.products
           /\ Done("edit_product_stock", r.result)
           /\ IF r.result = "StockUpdated"
              THEN catalogueFile' = catalogue_save(r.products)
              ELSE UNCHANGED catalogueFile
    /\ UNCHANGED <<items, cartFile, now>>

\* The confirmation is asked for once the UPC is found in the catalogue.
DeleteProduct(upc, confirm) ==
    /\ Running
    /\ (confirm = Unread) = (find_product_by_upc(products, upc) = 0)
    /\ LET r == delete_product_from_catalogue(products, upc, confirm)
       IN  /\ products' = r.products
           /\ Done("delete_product", r.result)
           /\ IF r.result = "ProductDeleted"
              THEN catalogueFile' = catalogue_save(r.products)
              ELSE UNCHANGED catalogueFile
    /\ UNCHANGED <<items, cartFile, now>>

\* A month passes.
NextMonth(clock) ==
    IF clock.month = LastMonth THEN [year |-> clock.year + 1, month |-> FirstMonth]
    ELSE [year |-> clock.year, month |-> clock.month + 1]

MonthsElapsed == (now.year - StartYear) * LastMonth + now.month - LastMonth

Tick ==
    /\ Running
    /\ MonthsElapsed < MaxTicks
    /\ now' = NextMonth(now)
    /\ UNCHANGED <<products, items, catalogueFile, cartFile, last, payment>>

Next ==
    \/ \E upc \in UPCS, typed \in QtyInputs : AddItem(upc, typed)
    \/ \E typed \in ItemNumberInputs : RemoveItem(typed)
    \/ \E typed \in ItemNumberInputs, typed_qty \in QtyAnswers :
          UpdateItem(typed, typed_qty)
    \/ \E pay \in FewPayments : Checkout(pay)
    \/ \E upc \in UPCS, typed_stock \in StockAnswers :
          AddNewProduct(upc, typed_stock)
    \/ \E upc \in UPCS, typed_stock \in StockAnswers :
          EditStock(upc, typed_stock)
    \/ \E upc \in UPCS, confirm \in ConfirmAnswers :
          DeleteProduct(upc, confirm)

Spec == Init /\ [][Next]_vars

(***************************************************************************)
(* The payment prompts, with every payment text and a clock that moves:    *)
(* one product is put in the cart and checked out.                         *)
(***************************************************************************)
InitPay ==
    /\ catalogueFile =
           catalogue_save(<<ProductSheet("1111", MaxStock), ProductSheet("2222", MaxStock)>>)
    /\ products = catalogue_load(catalogueFile).products
    /\ cartFile = AbsentFile
    /\ items = <<>>
    /\ now = StartClock
    /\ last = [op |-> "main", result |-> "Loaded"]
    /\ payment = NoPayment

NextPay ==
    \/ AddItem("1111", ToText(1))
    \/ \E pay \in Payments : Checkout(pay)
    \/ Tick

SpecPay == InitPay /\ [][NextPay]_vars

(***************************************************************************)
(* Catalogue management over sessions: main() loads catalogue.json and     *)
(* cart.json, products are added, edited and deleted, and "Save & Exit"    *)
(* saves both files; then main() is started again.                         *)
(***************************************************************************)
\* The identifiers typed at a UPC prompt while managing the catalogue.
CatalogueUPCS == {"1111", "2222", "3333"}

\* A record of the first sample product with its members in another order,
\* the price written without cents.
ReorderedRecord ==
    JObject(<< Member("stock", JNumber(ToText(1))),
               Member("price", JNumber(ToText(1299))),
               Member("upc", JString("1111")),
               Member("category", JString("Computers")),
               Member("name", JString("Laptop X1")),
               Member("description", JString("High performance laptop")) >>)

\* What catalogue.json may hold when main() is first started.
StoredFiles ==
    { AbsentFile,
      UnparseableFile,
      save(<<>>),
      save(<< JObject(<< Member("upc", JString("1111")) >>) >>),
      save(<< JObject(to_dict(ProductSheet("1111", 1)).members
                      \o << Member("colour", JString("red")) >>) >>),
      save(<< to_dict(ProductSheet("2222", 1)), JNumber(ToText(1)) >>),
      save(<< ReorderedRecord >>),
      catalogue_save(<< ProductSheet("3333", 1), ProductSheet("1111", 0) >>) }

InitCat ==
    /\ catalogueFile \in StoredFiles
    /\ products = <<>>
    /\ cartFile = AbsentFile
    /\ items = <<>>
    /\ now = StartClock
    /\ last = [op |-> "main", result |-> "NotStarted"]
    /\ payment = NoPayment

\* main() is started: catalogue.load(), then cart.load().  When the first
\* raises the process ends with no catalogue and no cart, when the second
\* raises it ends with no cart.
Load ==
    /\ ~Running
    /\ LET r == catalogue_load(catalogueFile)
           c == cart_load(cartFile)
       IN  /\ products' = r.products
           /\ catalogueFile' = r.file
           /\ items' = IF r.result \in Crashes THEN <<>> ELSE c.items
           /\ Done("main", IF r.result \notin Crashes /\ c.result \in Crashes
                           THEN c.result ELSE r.result)
    /\ UNCHANGED <<cartFile, now>>

\* Main menu, choice 5: both files are saved and main() returns.
SaveAndExit ==
    /\ Running
    /\ catalogueFile' = catalogue_save(products)
    /\ cartFile' = cart_save(items)
    /\ Done("main", "Exited")
    /\ UNCHANGED <<products, items, now>>

NextCat ==
    \/ Load
    \/ SaveAndExit
    \/ \E upc \in CatalogueUPCS, typed_stock \in StockAnswers :
          AddNewProduct(upc, typed_stock)
    \/ \E upc \in CatalogueUPCS, typed_stock \in StockAnswers :
          EditStock(upc, typed_stock)
    \/ \E upc \in CatalogueUPCS, confirm \in ConfirmAnswers :
          DeleteProduct(upc, confirm)

SpecCat == InitCat /\ [][NextCat]_vars

(***************************************************************************)
(* The cart over sessions: main() loads cart.json, products are put in the *)
(* cart and taken out, and "Save & Exit" saves it.                         *)
(***************************************************************************)
\* What cart.json may hold when main() is first started.
StoredCarts ==
    { AbsentFile,
      UnparseableFile,
      UndecodableFile,
      save(JArray(<< JNumber(ToText(1)) >>)),
      cart_save(<<>>),
      cart_save(<< [upc |-> "2222", qty |-> MaxQty], [upc |-> "1111", qty |-> 1] >>) }

InitCartLoad ==
    /\ catalogueFile =
           catalogue_save(<<ProductSheet("1111", MaxStock), ProductSheet("2222", MaxStock)>>)
    /\ cartFile \in StoredCarts
    /\ products = <<>>
    /\ items = <<>>
    /\ now = StartClock
    /\ last = [op |-> "main", result |-> "NotStarted"]
    /\ payment = NoPayment

\* cart_menu when cart.items is a value that is no dict and not empty:
\* view_cart calls self.items.items(), which raises AttributeError.
CartMenuNoDict ==
    /\ Running
    /\ ~IsDict(items)
    /\ Done("cart_menu", "AttributeError")
    /\ UNCHANGED <<products, items, catalogueFile, cartFile, now>>

\* A product is picked and a quantity typed when cart.items is no dict: once
\* the quantity and the stock are accepted, add_to_cart raises TypeError.
AddItemNoDict(upc, typed) ==
    /\ Running
    /\ ~IsDict(items)
    /\ find_product_by_upc(products, upc) # 0
    /\ LET r == product_details_and_add_to_cart(
                    <<>>, products[find_product_by_upc(products, upc)], typed)
       IN  Done("add_to_cart", IF r.result = "Added" THEN "TypeError" ELSE r.result)
    /\ UNCHANGED <<products, items, catalogueFile, cartFile, now>>

NextCartLoad ==
    \/ Load
    \/ SaveAndExit
    \/ \E upc \in UPCS, typed \in QtyInputs : IsDict(items) /\ AddItem(upc, typed)
    \/ \E typed \in ItemNumberInputs : IsDict(items) /\ RemoveItem(typed)
    \/ \E upc \in UPCS, typed \in QtyInputs : AddItemNoDict(upc, typed)
    \/ CartMenuNoDict

SpecCartLoad == InitCartLoad /\ [][NextCartLoad]_vars

(***************************************************************************)
(* Browsing: "View All Products" with its three queries, over catalogues   *)
(* of the sample products and one product added by a user.                 *)
(***************************************************************************)
\* A product typed in add_new_product, its category in lower case and its
\* price that of the third sample product.
SpeakerStand == Product("4444", "Speaker Stand", "Floor stand", 7999, "audio", 1)

BrowseProducts ==
    {create_sample_catalogue[i] : i \in 1..Len(create_sample_catalogue)} \cup {SpeakerStand}

\* Every catalogue of these products, in every order.
BrowseCatalogues ==
    UNION { {c \in [1..n -> BrowseProducts] : \A i, j \in 1..n : c[i] = c[j] => i = j}
            : n \in 0..Cardinality(BrowseProducts) }

\* The categories of the menu (line 459); an empty text stands for None.
categories(category_choice) ==
    CASE category_choice = <<"1">> -> Characters("Computers")
      [] category_choice = <<"2">> -> Characters("TVs")
      [] category_choice = <<"3">> -> Characters("Audio")
      [] OTHER -> <<>>

CategoryChoices == {<<"1">>, <<"2">>, <<" ", "3">>, <<"4">>}

PriceChoices == {<<"1">>, <<"2">>, <<"3">>}

SearchInputs ==
    { <<"s", "p", "e", "a", "k", "e", "r">>, <<"L", "A", "P", "T", "O", "P">>,
      <<"t", "v", " ">>, <<"5", "5", "\"">>, <<"z">>, <<>> }

InitBrowse ==
    /\ products \in BrowseCatalogues
    /\ catalogueFile = catalogue_save(products)
    /\ cartFile = AbsentFile
    /\ items = <<>>
    /\ now = StartClock
    /\ last = [op |-> "main", result |-> "Loaded"]
    /\ payment = NoPayment

\* What a query leaves for the selection prompt: the query and its listing.
Listed(op, query, listing) ==
    /\ last' = [op |-> op, result |-> IF listing = <<>> THEN "NoProducts" ELSE "Listed",
                query |-> query, listing |-> listing]
    /\ UNCHANGED <<products, items, catalogueFile, cartFile, now, payment>>

\* Filter menu, choice 1.
FilterByCategory(category_choice) ==
    /\ Running
    /\ LET category == categories(strip(category_choice))
       IN  IF category = <<>>
           THEN Done("filter_by_category", "InvalidChoice")
                /\ UNCHANGED <<products, items, catalogueFile, cartFile, now>>
           ELSE Listed("filter_by_category", category, filter_by_category(products, category))

\* Filter menu, choice 2.
FilterByPrice(price_choice) ==
    /\ Running
    /\ IF strip(price_choice) \in {<<"1">>, <<"2">>}
       THEN LET ascending == strip(price_choice) = <<"1">>
            IN  Listed("filter_by_price", ascending, filter_by_price(products, ascending))
       ELSE Done("filter_by_price", "InvalidChoice")
            /\ UNCHANGED <<products, items, catalogueFile, cartFile, now>>

\* Filter menu, choice 3.
SearchByName(typed) ==
    /\ Running
    /\ LET search_name == strip(typed)
       IN  Listed("search_by_name", search_name, search_by_name(products, search_name))

NextBrowse ==
    \/ \E category_choice \in CategoryChoices : FilterByCategory(category_choice)
    \/ \E price_choice \in PriceChoices : FilterByPrice(price_choice)
    \/ \E typed \in SearchInputs : SearchByName(typed)

SpecBrowse == InitBrowse /\ [][NextBrowse]_vars

(***************************************************************************)
(* Properties.                                                             *)
(***************************************************************************)
\* The quantity the cart holds for an identifier, 0 when it holds none.
QtyIn(its, upc) ==
    LET at == {n \in 1..Len(its) : its[n].upc = upc}
    IN  IF at = {} THEN 0 ELSE its[CHOOSE n \in at : TRUE].qty

\* The stock of an identifier in the catalogue; only used where it resolves.
StockOf(prods, upc) ==
    LET at == {i \in 1..Len(prods) : prods[i].upc = upc}
    IN  prods[CHOOSE i \in at : TRUE].stock

Resolves(prods, upc) == \E i \in 1..Len(prods) : prods[i].upc = upc

\* The step is a run of checkout.
CheckoutStep == last'.op = "checkout" /\ now' = now

\* The ways checkout ends by returning False to cart_menu.
Rejections ==
    {"EmptyCart", "InsufficientStock", "BadCardNumber", "BadMonth", "BadYear",
     "ExpiredCard", "BadSecurityNumber"}

\* C1: every product's stock in the catalogue is >= 0 in every reachable state.
C1_StockNonNegative == \A i \in 1..Len(products) : products[i].stock >= 0

\* A checkout has succeeded and has taken a product's stock down to 0.
C1_Witness ==
    /\ last = [op |-> "checkout", result |-> "Success"]
    /\ \E i \in 1..Len(products) : products[i].stock = 0

\* C2: a checkout that does not succeed leaves the catalogue, the cart and both
\* files as they were; and checkout of an empty cart is such a run.
C2_CheckoutAtomicity ==
    [][ CheckoutStep =>
           /\ last'.result # "Success" =>
                 /\ products' = products
                 /\ items' = items
                 /\ catalogueFile' = catalogueFile
                 /\ cartFile' = cartFile
           /\ \A pay \in FewPayments :
                 LET r == checkout(<<>>, products, pay.card, pay.month, pay.year, pay.cvv, now)
                 IN  r.result = "EmptyCart" /\ r.products = products /\ r.items = <<>>
      ]_vars

\* A checkout has been refused for an expired card, with the cart still full.
C2_Witness ==
    /\ last = [op |-> "checkout", result |-> "ExpiredCard"]
    /\ items # <<>>

\* C3: a checkout that succeeds lowers the stock of every product by the
\* quantity the cart held for it (by nothing for a product the cart did not
\* hold), changes nothing else of the catalogue, and empties the cart.
C3_CheckoutCommit ==
    [][ (CheckoutStep /\ last'.result = "Success") =>
           /\ items' = <<>>
           /\ \A n \in 1..Len(items) : Resolves(products, items[n].upc)
           /\ Len(products') = Len(products)
           /\ \A i \in 1..Len(products) :
                 products'[i] =
                     [products[i] EXCEPT !.stock = @ - QtyIn(items, products[i].upc)]
      ]_vars

\* A checkout has succeeded while the catalogue holds a product the cart did not.
C3_Witness ==
    /\ last = [op |-> "checkout", result |-> "Success"]
    /\ items = <<>>
    /\ Len(products) = Cardinality(UPCS)
    /\ cartFile = cart_save(<<>>)

\* C4: a checkout of a cart with an entry that resolves to no product, or to a
\* product with less stock than the entry asks for, is refused: it returns to
\* the caller, the process goes on, and nothing is changed.
C4_CheckoutRejectsUnavailable ==
    [][ (/\ CheckoutStep
         /\ \E n \in 1..Len(items) :
               \/ ~Resolves(products, items[n].upc)
               \/ StockOf(products, items[n].upc) < items[n].qty) =>
           /\ last'.result \in Rejections
           /\ products' = products
           /\ items' = items
      ]_vars

\* The quantities typed that stand for an integer >= 1, and for an integer <= 0.
PositiveQtyInputs == {t \in QtyInputs : int(t).ok /\ int(t).val >= 1}

NonPositiveQtyInputs == {t \in QtyInputs : int(t).ok /\ int(t).val <= 0}

\* C7: adding q >= 1 of a product succeeds exactly when the quantity the cart
\* holds for it plus q is at most its stock; the cart then holds that sum for
\* it, which is at most the stock, and every other entry is as before;
\* otherwise the add is refused and the cart is unchanged.
C7_AddItemAdditive ==
    [][ last'.op = "add_to_cart" => \A upc \in UPCS, typed \in PositiveQtyInputs :
           AddItem(upc, typed) =>
               LET q     == int(typed).val
                   total == QtyIn(items, upc) + q
               IN  IF total <= StockOf(products, upc)
                   THEN /\ last'.result = "Added"
                        /\ \A u \in UPCS \cup DictKeys(items) \cup DictKeys(items') :
                              QtyIn(items', u) = IF u = upc THEN total ELSE QtyIn(items, u)
                        /\ QtyIn(items', upc) <= StockOf(products', upc)
                   ELSE /\ last'.result = "InsufficientStock"
                        /\ items' = items
      ]_vars

\* An add has succeeded and the cart holds more than one unit of a product.
C7_Witness ==
    /\ last = [op |-> "add_to_cart", result |-> "Added"]
    /\ \E n \in 1..Len(items) :
          items[n].qty >= 2 /\ items[n].qty <= StockOf(products, items[n].upc)

\* C8: adding a quantity q <= 0 is answered as an invalid quantity and leaves
\* the cart as it was.
C8_AddItemRejectsNonPositive ==
    [][ last'.op = "add_to_cart" => \A upc \in UPCS, typed \in NonPositiveQtyInputs :
           AddItem(upc, typed) =>
               /\ last'.result = "InvalidQuantity"
               /\ items' = items
      ]_vars

\* A non-positive quantity has been typed for a product while the cart holds an entry.
C8_Witness ==
    /\ last = [op |-> "add_to_cart", result |-> "InvalidQuantity"]
    /\ items # <<>>

\* C9: every entry of the cart has a quantity >= 1 in every reachable state.
C9_CartQuantityPositive == \A n \in 1..Len(items) : items[n].qty >= 1

\* A quantity of 0 has been set for an entry, which is gone, and an entry is left.
C9_Witness ==
    /\ last = [op |-> "update_quantity", result |-> "Removed"]
    /\ items # <<>>

\* C10: for every identifier, with or without a product in the catalogue,
\* update_quantity with a quantity <= 0 leaves the cart as remove_from_cart does.
C10_UpdateNonPositiveIsRemove ==
    \A upc \in UPCS \cup DictKeys(items) : \A q \in {0 - 1, 0} :
        update_quantity(items, upc, q, products).items = remove_from_cart(items, upc).items

\* The text, with its separators dropped, is sixteen digits and nothing else.
SixteenDigits(typed) ==
    LET t == SelectSeq(typed, LAMBDA c : c \notin {" ", "-"})
    IN  Len(t) = 16 /\ \A i \in 1..Len(t) : t[i] \in Digits

\* C5: a checkout that asks for the card number goes on past it exactly when
\* the text, separators dropped, is sixteen digits and nothing else; with any
\* other text it is refused for the card number and changes nothing.
C5_CardNumberRule ==
    [][ (CheckoutStep /\ payment'.card # Unread) =>
           IF SixteenDigits(payment'.card)
           THEN last'.result # "BadCardNumber"
           ELSE /\ last'.result = "BadCardNumber"
                /\ products' = products
                /\ items' = items
      ]_vars

\* The text, stripped, is a non-negative integer written in decimal digits.
IsNatural(typed) ==
    LET t == strip(typed)
    IN  Len(t) > 0 /\ \A i \in 1..Len(t) : t[i] \in Digits

NaturalOf(typed) == DecimalValue(strip(typed))

\* C6: a checkout that asks for the expiry month is refused when the month is
\* no integer in 1..12, and when the year is no number; with a month in 1..12
\* and a year that is a non-negative integer it is refused as expired exactly
\* when (year, month) is before the clock's (year, month).
C6_ExpiryRule ==
    [][ (CheckoutStep /\ payment'.month # Unread) =>
           LET m == payment'.month
               y == payment'.year
           IN  IF ~(IsNatural(m) /\ NaturalOf(m) >= 1 /\ NaturalOf(m) <= 12)
               THEN last'.result \in Rejections /\ y = Unread
               ELSE /\ y # Unread
                    /\ IF ~IsNatural(y)
                       THEN last'.result \in Rejections /\ payment'.cvv = Unread
                       ELSE (last'.result = "ExpiredCard") =
                                (\/ NaturalOf(y) < now.year
                                 \/ NaturalOf(y) = now.year /\ NaturalOf(m) < now.month)
      ]_vars

\* C11: setting a quantity q >= 1 for an entry of the cart succeeds exactly
\* when q is at most the product's stock, whatever quantity the cart held for
\* it, and the cart then holds q for it; when q is more than the stock the
\* update is refused and the cart is unchanged.
C11_SetQuantityOverwrites ==
    [][ (last'.op = "update_quantity" /\ last'.result \in {"Updated", "InsufficientStock"}) =>
           \A n \in 1..Len(items), typed_qty \in PositiveQtyInputs :
               UpdateItem(ToText(n), typed_qty) =>
                   LET upc == items[n].upc
                       q   == int(typed_qty).val
                   IN  IF q <= StockOf(products, upc)
                       THEN /\ last'.result = "Updated"
                            /\ QtyIn(items', upc) = q
                       ELSE /\ last'.result = "InsufficientStock"
                            /\ items' = items
      ]_vars

\* A quantity has been set for an entry, below the stock of its product.
C11_Witness ==
    /\ last = [op |-> "update_quantity", result |-> "Updated"]
    /\ \E n \in 1..Len(items) :
          /\ Resolves(products, items[n].upc)
          /\ items[n].qty < StockOf(products, items[n].upc)

\* C12: removing an identifier the cart does not hold reports that it is not
\* in the cart and leaves the cart as it was; removing one it holds deletes
\* that entry and keeps every other entry, in order; and removing it a second
\* time leaves the cart as the first removal left it.
C12_IdempotentRemoval ==
    \A upc \in UPCS :
        LET r  == remove_from_cart(items, upc)
            at == {n \in 1..Len(items) : items[n].upc = upc}
        IN  /\ IF at = {}
               THEN r.result = "NotInCart" /\ r.items = items
               ELSE /\ r.result = "Removed"
                    /\ Len(r.items) = Len(items) - 1
                    /\ \A n \in 1..Len(items) :
                          n \notin at =>
                              r.items[n - Cardinality({m \in at : m < n})] = items[n]
            /\ remove_from_cart(r.items, upc).items = r.items
            /\ remove_from_cart(r.items, upc).result = "NotInCart"

\* An entry has been removed from a cart that held two, and the other is left.
C12_Witness ==
    /\ last = [op |-> "remove_from_cart", result |-> "Removed"]
    /\ Len(items) = 1

\* The handlers of the cart.
CartOps == {"add_to_cart", "remove_from_cart", "update_quantity"}

\* C16: adding to the cart, removing from it, setting a quantity in it and a
\* checkout that does not succeed leave the catalogue as it was: the products,
\* their order and their stock.
C16_StockFrame ==
    [][ (\/ last'.op \in CartOps
         \/ CheckoutStep /\ last'.result # "Success") =>
           products' = products
      ]_vars

\* A quantity in the cart has been changed while a product is out of stock.
C16_Witness ==
    /\ last.op \in CartOps
    /\ last.result \in {"Added", "Removed", "Updated"}
    /\ \E i \in 1..Len(products) : products[i].stock = 0

\* The sum over the catalogue of price times the quantity the cart holds.
RECURSIVE CatalogueSum(_, _)
CatalogueSum(prods, its) ==
    IF prods = <<>> THEN 0
    ELSE Head(prods).price * QtyIn(its, Head(prods).upc) + CatalogueSum(Tail(prods), its)

\* The cart and the catalogue of the example: A at 10.00, B at 5.50.
ExampleCatalogue ==
    << Product("A", "A", "", 1000, "Audio", 2), Product("B", "B", "", 550, "Audio", 1) >>

ExampleCart == << [upc |-> "A", qty |-> 2], [upc |-> "B", qty |-> 1] >>

\* C18: for a cart whose identifiers all resolve, the total price is the sum
\* over its entries of quantity times the price of the product in the
\* catalogue, in cents; the example cart gives 25.50 and the empty cart 0.
C18_TotalPrice ==
    /\ (\A n \in 1..Len(items) : Resolves(products, items[n].upc)) =>
           get_total_price(items, products) =
               [ok |-> TRUE, total |-> CatalogueSum(products, items)]
    /\ get_total_price(ExampleCart, ExampleCatalogue) = [ok |-> TRUE, total |-> 2550]
    /\ get_total_price(<<>>, products) = [ok |-> TRUE, total |-> 0]

\* A checkout has shown the total of a cart of two entries, one of two units,
\* and has been refused for the card number.
C18_Witness ==
    /\ last = [op |-> "checkout", result |-> "BadCardNumber"]
    /\ Len(items) = 2
    /\ \E n \in 1..Len(items) : items[n].qty = 2

\* The file holds the products given, in order.
Holds(file, prods) ==
    /\ file.state = "valid"
    /\ Len(file.data) = Len(prods)
    /\ \A i \in 1..Len(prods) : accepts(file.data[i]) /\ from_dict(file.data[i]) = prods[i]

\* The ways a handler ends having changed the catalogue.
Mutations ==
    { [op |-> "add_new_product", result |-> "ProductAdded"],
      [op |-> "edit_product_stock", result |-> "StockUpdated"],
      [op |-> "delete_product", result |-> "ProductDeleted"],
      [op |-> "checkout", result |-> "Success"] }

\* C19: when adding a product, editing a stock, a confirmed deletion or a
\* successful checkout is over, catalogue.json holds the catalogue in memory;
\* after a successful checkout cart.json holds the empty cart; a checkout that
\* does not succeed writes to neither file.
C19_PersistAfterMutation ==
    [][ /\ last' \in Mutations => Holds(catalogueFile', products')
        /\ (CheckoutStep /\ last'.result = "Success") =>
              cartFile'.state = "valid" /\ cart_load(cartFile').items = <<>> /\ items' = <<>>
        /\ (CheckoutStep /\ last'.result # "Success") =>
              catalogueFile' = catalogueFile /\ cartFile' = cartFile
      ]_vars

\* A stock has been edited and the file holds the new stock.
C19_Witness ==
    /\ last = [op |-> "edit_product_stock", result |-> "StockUpdated"]
    /\ \E i \in 1..Len(products) : products[i].stock = MaxStock
    /\ Holds(catalogueFile, products)

\* The step is main() loading the catalogue.
LoadStep == last'.op = "main" /\ last'.result # "Exited"

\* The file holds a non-empty list of records that are all products.
ValidFile(file) ==
    /\ file.state = "valid"
    /\ file.data # <<>>
    /\ \A i \in 1..Len(file.data) : accepts(file.data[i])

\* C13: whatever catalogue.json holds, load() ends with the process running
\* and a catalogue that is not empty; when the file is absent or is no valid
\* catalogue, the catalogue is the three sample products and the file holds them.
C13_LoadNeverFails ==
    [][ LoadStep =>
           /\ last'.result \notin Crashes
           /\ products' # <<>>
           /\ ~ValidFile(catalogueFile) =>
                 /\ products' = create_sample_catalogue
                 /\ Holds(catalogueFile', create_sample_catalogue)
      ]_vars

Unique(prods) ==
    \A i, j \in 1..Len(prods) : prods[i].upc = prods[j].upc => i = j

\* C14: adding a product with an identifier the catalogue holds is refused and
\* leaves the catalogue as it was; a product that is added goes after all the
\* products the catalogue held; and no step takes a catalogue of distinct
\* identifiers to one with an identifier twice.
C14_UniqueIdentifiers ==
    [][ /\ Unique(products) => Unique(products')
        /\ last'.op = "add_new_product" =>
              \A upc \in CatalogueUPCS, typed_stock \in StockAnswers :
                  AddNewProduct(upc, typed_stock) =>
                      IF Resolves(products, upc)
                      THEN last'.result = "DuplicateIdentifier" /\ products' = products
                      ELSE IF last'.result = "ProductAdded"
                      THEN /\ Len(products') = Len(products) + 1
                           /\ SubSeq(products', 1, Len(products)) = products
                           /\ products'[Len(products')].upc = upc
                      ELSE products' = products
      ]_vars

\* A product deleted earlier has been added again, behind the two that were left.
C14_Witness ==
    /\ last = [op |-> "add_new_product", result |-> "ProductAdded"]
    /\ Len(products) = 3
    /\ products[3].upc = "1111"

\* C15: with products in the catalogue, deleting an identifier it does not hold
\* reports that the product is not found and leaves the catalogue as it was;
\* a confirmed deletion of one it holds removes that product and keeps every
\* other product, in order.
C15_RemoveByIdentifier ==
    [][ (last'.op = "delete_product" /\ products # <<>>) =>
           \A upc \in CatalogueUPCS, confirm \in ConfirmAnswers :
               DeleteProduct(upc, confirm) =>
                   LET at == {i \in 1..Len(products) : products[i].upc = upc}
                   IN  IF at = {}
                       THEN last'.result = "ProductNotFound" /\ products' = products
                       ELSE IF confirm = <<"y">>
                       THEN /\ last'.result = "ProductDeleted"
                            /\ Len(products') = Len(products) - 1
                            /\ \A i \in 1..Len(products) :
                                  i \notin at =>
                                      products'[i - Cardinality({j \in at : j < i})]
                                          = products[i]
                       ELSE last'.result = "DeletionCancelled" /\ products' = products
      ]_vars

\* The second of three products has been deleted.
C15_Witness ==
    /\ last = [op |-> "delete_product", result |-> "ProductDeleted"]
    /\ Len(products) = 2
    /\ products[1].upc = "1111"
    /\ products[2].upc = "3333"

\* C20: a catalogue that is not empty, saved at exit and loaded by the next
\* main(), is the same products in the same order, and the file is as it was
\* saved; and a valid file that is loaded and saved at once holds the same
\* products in the same order as before.
C20_RoundTrip ==
    [][ /\ (last.result = "Exited" /\ LoadStep /\ products # <<>>) =>
              /\ last'.result = "Loaded"
              /\ products' = products
              /\ catalogueFile' = catalogueFile
        /\ (last = [op |-> "main", result |-> "Loaded"] /\ last'.result = "Exited") =>
              /\ Holds(catalogueFile', catalogue_load(catalogueFile).products)
              /\ Holds(catalogueFile, catalogue_load(catalogueFile).products)
      ]_vars

\* A catalogue edited in an earlier session has been loaded: the sample
\* products in another order, one with its stock edited.
C20_Witness ==
    /\ last = [op |-> "main", result |-> "Loaded"]
    /\ Len(products) = 3
    /\ products[1].upc = "2222"
    /\ products[3].stock = MaxStock
    /\ Holds(catalogueFile, products)

\* Two characters are the same letter, in either case, or the same character.
SameLetter(a, b) ==
    a = b \/ \E k \in 1..Len(UpperCase) : {a, b} = {UpperCase[k], LowerCase[k]}

EqualIgnoringCase(s, t) ==
    Len(s) = Len(t) /\ \A i \in 1..Len(s) : SameLetter(s[i], t[i])

ContainsIgnoringCase(sub, s) ==
    \E k \in 0..(Len(s) - Len(sub)) : \A i \in 1..Len(sub) : SameLetter(sub[i], s[k + i])

\* The listing is the products at the positions at, in catalogue order.
IsSelection(listing, prods, at) ==
    /\ Len(listing) = Cardinality(at)
    /\ \A i \in at : listing[Cardinality({j \in at : j <= i})] = prods[i]

\* The listing holds every product as often as the catalogue does.
IsPermutation(listing, prods) ==
    /\ Len(listing) = Len(prods)
    /\ \A i \in 1..Len(prods) :
          Cardinality({j \in 1..Len(listing) : listing[j] = prods[i]})
              = Cardinality({j \in 1..Len(prods) : prods[j] = prods[i]})

\* The step is a query that gave a listing.
QueryStep(op) == last'.op = op /\ last'.result # "InvalidChoice"

\* C17: the category filter and the name search list the products that match
\* the query whatever the case of the letters, in catalogue order; the price
\* filter lists every product once, by price in the direction asked for; and
\* the catalogue is as it was.
C17_QueriesPure ==
    [][ /\ QueryStep("filter_by_category") =>
              /\ IsSelection(last'.listing, products,
                     {i \in 1..Len(products) :
                         EqualIgnoringCase(Characters(products[i].category), last'.query)})
              /\ products' = products
        /\ QueryStep("search_by_name") =>
              /\ IsSelection(last'.listing, products,
                     {i \in 1..Len(products) :
                         ContainsIgnoringCase(last'.query, Characters(products[i].name))})
              /\ products' = products
        /\ QueryStep("filter_by_price") =>
              /\ IsPermutation(last'.listing, products)
              /\ \A i, j \in 1..Len(last'.listing) :
                    i < j => IF last'.query
                             THEN last'.listing[i].price <= last'.listing[j].price
                             ELSE last'.listing[i].price >= last'.listing[j].price
              /\ products' = products
      ]_vars

\* The category filter has listed two products whose categories differ in
\* case, the first and the last of a catalogue of four, in that order.
C17_Witness ==
    /\ last.op = "filter_by_category"
    /\ last.result = "Listed"
    /\ Len(last.listing) = 2
    /\ last.listing[1].category # last.listing[2].category
    /\ Len(products) = 4
    /\ products[1] = last.listing[1]
    /\ products[4] = last.listing[2]

\* The file holds a JSON object of quantities.
ValidCartFile(file) ==
    /\ file.state = "valid"
    /\ file.data.json = "object"
    /\ \A n \in 1..Len(file.data.members) : file.data.members[n].value.json = "number"

\* C21: when cart.json is absent or holds no mapping of quantities, loading
\* the cart gives the empty cart and the process goes on; when it holds one,
\* the cart is that mapping; and loading writes nothing to cart.json.
C21_CartLoadFallback ==
    [][ LoadStep =>
           /\ last'.result \notin Crashes
           /\ cartFile' = cartFile
           /\ IF ValidCartFile(cartFile)
              THEN /\ Len(items') = Len(cartFile.data.members)
                   /\ \A n \in 1..Len(items') :
                         /\ items'[n].upc = cartFile.data.members[n].key
                         /\ IntText(items'[n].qty) = cartFile.data.members[n].value.text
              ELSE items' = <<>>
      ]_vars

\* C22: a run of checkout asks for the card number only when the cart is not
\* empty and every entry has a product with stock enough; for the month only
\* when the card number has passed; for the year only when the month has
\* passed; for the security number only when the year is a number and the
\* card is not expired; and it changes the stock only when the security
\* number has passed.  Checkout of an empty cart asks for nothing.
C22_CheckoutPhaseOrder ==
    [][ CheckoutStep =>
           /\ payment'.card # Unread =>
                 /\ items # <<>>
                 /\ \A n \in 1..Len(items) :
                       /\ Resolves(products, items[n].upc)
                       /\ StockOf(products, items[n].upc) >= items[n].qty
           /\ payment'.month # Unread =>
                 payment'.card # Unread /\ card_number_ok(payment'.card)
           /\ payment'.year # Unread =>
                 /\ payment'.month # Unread
                 /\ IsNatural(payment'.month)
                 /\ NaturalOf(payment'.month) >= FirstMonth
                 /\ NaturalOf(payment'.month) <= LastMonth
           /\ payment'.cvv # Unread =>
                 /\ payment'.year # Unread
                 /\ IsNatural(payment'.year)
                 /\ ~expired(NaturalOf(payment'.year), NaturalOf(payment'.month), now)
           /\ products' # products =>
                 /\ payment'.cvv # Unread
                 /\ security_number_ok(payment'.cvv)
                 /\ last'.result = "Success"
           /\ \A pay \in FewPayments :
                 LET r == checkout(<<>>, products, pay.card, pay.month, pay.year, pay.cvv, now)
                 IN  FieldsRead(r.result, pay.card, pay.month, pay.year, pay.cvv) = NoPayment
      ]_vars

\* A checkout has read all four fields and has been refused for the last one.
C22_Witness ==
    /\ last = [op |-> "checkout", result |-> "BadSecurityNumber"]
    /\ payment.cvv # Unread
    /\ items # <<>>

\* C23 as stated: for an identifier the cart does not hold, update_quantity
\* leaves the cart as it was, for every quantity.
C23_UpdateAbsentUnchanged ==
    \A upc \in UPCS : \A q \in (0 - 1)..MaxQty :
        upc \notin DictKeys(items) =>
            update_quantity(items, upc, q, products).items = items

\* C23 as amended: cart_menu sets quantities of entries of the cart only, so
\* that an update adds no identifier and changes no entry but the one
\* selected, and identifiers come into the cart through add_to_cart alone;
\* update_quantity itself, for an identifier the cart does not hold, puts
\* the entry last in the cart when the product is in the catalogue and the
\* quantity is from 1 to its stock, and leaves the cart as it was otherwise.
C23_UpdateOnlyExisting ==
    [][ /\ last'.op = "update_quantity" =>
              /\ DictKeys(items') \subseteq DictKeys(items)
              /\ \E upc \in DictKeys(items) :
                    \A u \in DictKeys(items) \ {upc} : QtyIn(items', u) = QtyIn(items, u)
        /\ ~(DictKeys(items') \subseteq DictKeys(items)) => last'.op = "add_to_cart"
        /\ \A upc \in UPCS \ DictKeys(items) : \A q \in (0 - 1)..MaxQty :
              update_quantity(items, upc, q, products).items =
                  IF /\ Resolves(products, upc)
                     /\ q >= 1
                     /\ q <= StockOf(products, upc)
                  THEN Append(items, [upc |-> upc, qty |-> q])
                  ELSE items
      ]_vars

\* A quantity has been set for one of two entries, which now differ.
C23_Witness ==
    /\ last = [op |-> "update_quantity", result |-> "Updated"]
    /\ Len(items) = 2
    /\ items[1].qty # items[2].qty

====
